---- MODULE Spec2Model ----
(***************************************************************************)
(* onspotx-backend: the location-discovery service.                        *)
(*                                                                         *)
(* Number representation.  Coordinates are integers in units of 1e-4       *)
(* degree (40.7130 is 407130); distances and radii are integers in units   *)
(* of 0.01 km (5.0 km is 500), which is the grid Math.round(d * 100) / 100 *)
(* puts every distance on.  The double arithmetic inside calculateDistance *)
(* is carried out on decimal floating-point values [m, e] = m * 10^e with  *)
(* an 8-digit mantissa.  A JavaScript string is a sequence of one-letter   *)
(* strings, so that toLowerCase is computed letter by letter.  An optional *)
(* property that is undefined is a field missing from the record.          *)
(***************************************************************************)
EXTENDS Integers, Sequences, FiniteSets, TLC

VARIABLES defaultRadius, maxRadius, maxResults, mockPlaces, pc, query, result,
          request, reply, accesses, history, calls

vars == <<defaultRadius, maxRadius, maxResults, mockPlaces, pc, query, result,
          request, reply, accesses, history, calls>>

----------------------------------------------------------------------------
(* Decimal floating point: the model of JavaScript's double arithmetic.    *)

Abs(x) == IF x < 0 THEN -x ELSE x

Sgn(x) == IF x < 0 THEN -1 ELSE IF x > 0 THEN 1 ELSE 0

MantLo == 10^7

MantHi == 10^8

FZero == [m |-> 0, e |-> 0]

RECURSIVE Norm(_, _, _)
Norm(s, mag, e) ==
    IF mag = 0 THEN FZero
    ELSE IF mag >= MantHi THEN Norm(s, mag \div 10, e + 1)
    ELSE IF mag < MantLo THEN Norm(s, mag * 10, e - 1)
    ELSE [m |-> s * mag, e |-> e]

FromInt(n) == Norm(Sgn(n), Abs(n), 0)

\* n * 10^-k
Dec(n, k) == Norm(Sgn(n), Abs(n), -k)

FNeg(x) == [m |-> -x.m, e |-> x.e]

FAbs(x) == [m |-> Abs(x.m), e |-> x.e]

\* x * y: the 16-digit product of the mantissas, cut to its leading digits.
FMul(x, y) ==
    IF x.m = 0 \/ y.m = 0 THEN FZero
    ELSE LET ax == Abs(x.m)
             ay == Abs(y.m)
             a == ax \div 10^4
             b == ax % 10^4
             c == ay \div 10^4
             d == ay % 10^4
             t == a * d + b * c + (b * d) \div 10^4
             r == a * c * 10 + t \div 1000
         IN Norm(Sgn(x.m) * Sgn(y.m), r, x.e + y.e + 7)

AddAligned(hi, lo) ==
    LET k == hi.e - lo.e
        lom == IF k = 0 THEN lo.m * 10
               ELSE IF k > 9 THEN 0
               ELSE Sgn(lo.m) * (Abs(lo.m) \div 10^(k - 1))
        sum == hi.m * 10 + lom
    IN Norm(Sgn(sum), Abs(sum), hi.e - 1)

FAdd(x, y) ==
    IF x.m = 0 THEN y
    ELSE IF y.m = 0 THEN x
    ELSE IF x.e >= y.e THEN AddAligned(x, y) ELSE AddAligned(y, x)

FSub(x, y) == FAdd(x, FNeg(y))

FLess(x, y) == FSub(x, y).m < 0

RECURSIVE DivDigits(_, _, _, _)
DivDigits(r, d, n, q) ==
    IF n = 0 THEN q ELSE DivDigits((r % d) * 10, d, n - 1, q * 10 + r \div d)

FDiv(x, y) ==
    IF x.m = 0 THEN FZero
    ELSE Norm(Sgn(x.m) * Sgn(y.m), DivDigits(Abs(x.m), Abs(y.m), 9, 0), x.e - y.e - 8)

RECURSIVE ISqrt(_, _)
ISqrt(n, g) ==
    LET g2 == (g + n \div g) \div 2
    IN IF g2 >= g THEN g ELSE ISqrt(n, g2)

\* One Newton step towards the square root of x.
SqrtStep(x, g) == FMul(FAdd(g, FDiv(x, g)), Dec(5, 1))

\* The integer square root of a mantissa n at an even exponent e.
SqrtSeed(n, e) == Norm(1, ISqrt(n, 31623), e \div 2)

\* Math.sqrt: an integer square root of the mantissa, then two Newton steps.
Math_sqrt(x) ==
    IF x.m = 0 THEN FZero
    ELSE SqrtStep(x, SqrtStep(x, IF x.e % 2 = 1 THEN SqrtSeed(x.m * 10, x.e - 1)
                                                ELSE SqrtSeed(x.m, x.e)))

Math_PI == [m |-> 31415927, e |-> -7]

HalfPi == [m |-> 15707963, e |-> -7]

\* The alternating Taylor series acc + term - term*x2/(k(k+1)) + ...
RECURSIVE Series(_, _, _, _)
Series(term, x2, k, acc) ==
    IF term.m = 0 \/ (acc.m # 0 /\ term.e < acc.e - 10) \/ k > 30 THEN acc
    ELSE Series(FNeg(FDiv(FMul(term, x2), FromInt(k * (k + 1)))), x2, k + 2,
                FAdd(acc, term))

\* r - r^3/3! + r^5/5! - ...
SinSeries(r) == Series(r, FMul(r, r), 2, FZero)

\* 1 - r^2/2! + r^4/4! - ...
CosSeries(r) == Series(FromInt(1), FMul(r, r), 1, FZero)

\* v with the sign of x.
CopySign(v, x) == IF x.m < 0 THEN FNeg(v) ELSE v

\* An angle of [0, pi] folded to [0, pi/2].
Fold(ax) == IF FLess(HalfPi, ax) THEN FSub(Math_PI, ax) ELSE ax

\* Math.sin on [-pi, pi]: odd, folded to [0, pi/2].
Math_sin(x) == CopySign(SinSeries(Fold(FAbs(x))), x)

\* Math.cos on [-pi, pi]: even, folded to [0, pi/2].
Math_cos(x) ==
    IF FLess(HalfPi, FAbs(x)) THEN FNeg(CosSeries(Fold(FAbs(x))))
    ELSE CosSeries(FAbs(x))

RECURSIVE AtanSeries(_, _, _, _)
AtanSeries(pow, t2, k, acc) ==
    LET term == FDiv(pow, FromInt(k))
    IN IF term.m = 0 \/ (acc.m # 0 /\ term.e < acc.e - 10) \/ k > 60 THEN acc
       ELSE AtanSeries(FNeg(FMul(pow, t2)), t2, k + 2, FAdd(acc, term))

RECURSIVE Atan(_)
Atan(t) ==
    IF t.m = 0 THEN FZero
    ELSE IF FLess(FromInt(1), t) THEN FSub(HalfPi, Atan(FDiv(FromInt(1), t)))
    ELSE IF FLess(Dec(3, 1), t)
         THEN FMul(FromInt(2),
                   Atan(FDiv(t, FAdd(FromInt(1),
                                     Math_sqrt(FAdd(FromInt(1), FMul(t, t)))))))
    ELSE AtanSeries(t, FMul(t, t), 1, FZero)

\* Math.atan2 for y >= 0 and x >= 0, the quadrant two square roots lie in.
Math_atan2(y, x) ==
    IF x.m = 0 THEN (IF y.m = 0 THEN FZero ELSE HalfPi) ELSE Atan(FDiv(y, x))

\* Math.round of a value >= 0, as an integer.
Math_round(x) ==
    IF x.m = 0 THEN 0
    ELSE IF x.e >= 0 THEN x.m * 10^x.e
    ELSE IF x.e < -9 THEN 0
    ELSE (x.m \div 10^(-x.e - 1) + 5) \div 10

----------------------------------------------------------------------------
(* common/utils/distance.util.ts                                           *)

EARTH_RADIUS_KM == 6371

toRadians(degrees) == FMul(degrees, FDiv(Math_PI, FromInt(180)))

\* A coordinate held in units of 1e-4 degree, as a number of degrees.
Degrees(n) == Dec(n, 4)

\* sin^2(dLat/2) + cos(lat1) * cos(lat2) * sin^2(dLng/2)
HaversineA(lat1Rad, lat2Rad, deltaLatRad, deltaLngRad) ==
    FAdd(FMul(Math_sin(FDiv(deltaLatRad, FromInt(2))),
              Math_sin(FDiv(deltaLatRad, FromInt(2)))),
         FMul(FMul(FMul(Math_cos(lat1Rad), Math_cos(lat2Rad)),
                   Math_sin(FDiv(deltaLngRad, FromInt(2)))),
              Math_sin(FDiv(deltaLngRad, FromInt(2)))))

\* 2 * atan2(sqrt(a), sqrt(1 - a))
HaversineC(a) ==
    FMul(FromInt(2), Math_atan2(Math_sqrt(a), Math_sqrt(FSub(FromInt(1), a))))

\* Faulty variant: the second longitude stands for the difference of the two.
Haversine_secondLongitudeAlone(point1, point2) ==
    Math_round(FMul(FMul(FromInt(EARTH_RADIUS_KM),
                         HaversineC(HaversineA(toRadians(Degrees(point1.lat)),
                                               toRadians(Degrees(point2.lat)),
                                               toRadians(Degrees(point2.lat - point1.lat)),
                                               toRadians(Degrees(point2.lng))))),
                    FromInt(100)))

\* Faulty variant: the latitudes are added where their difference is meant.
Haversine_latitudesAdded(point1, point2) ==
    Math_round(FMul(FMul(FromInt(EARTH_RADIUS_KM),
                         HaversineC(HaversineA(toRadians(Degrees(point1.lat)),
                                               toRadians(Degrees(point2.lat)),
                                               toRadians(Degrees(point2.lat + point1.lat)),
                                               toRadians(Degrees(point2.lng - point1.lng))))),
                    FromInt(100)))

\* The haversine great-circle distance, in units of 0.01 km.
Haversine(point1, point2) ==
    Math_round(FMul(FMul(FromInt(EARTH_RADIUS_KM),
                         HaversineC(HaversineA(toRadians(Degrees(point1.lat)),
                                               toRadians(Degrees(point2.lat)),
                                               toRadians(Degrees(point2.lat - point1.lat)),
                                               toRadians(Degrees(point2.lng - point1.lng))))),
                    FromInt(100)))

\* NaN, the one number no comparison holds of.
NaN == -(2^30)

isNaN(x) == x = NaN

\* Faulty variant: latitude checked against the longitude range.
isValidLatitude_wide(lat) == ~isNaN(lat) /\ lat >= -180 * 10^4 /\ lat <= 180 * 10^4

isValidLatitude(lat) == ~isNaN(lat) /\ lat >= -90 * 10^4 /\ lat <= 90 * 10^4

isValidLongitude(lng) == ~isNaN(lng) /\ lng >= -180 * 10^4 /\ lng <= 180 * 10^4

----------------------------------------------------------------------------
(* common/interfaces/location.interface.ts                                 *)

PlaceCategory_RESTAURANT == <<"r", "e", "s", "t", "a", "u", "r", "a", "n", "t">>

PlaceCategory_CAFE == <<"c", "a", "f", "e">>

PlaceCategory_BAR == <<"b", "a", "r">>

PlaceCategory_SHOP == <<"s", "h", "o", "p">>

PlaceCategory_HOTEL == <<"h", "o", "t", "e", "l">>

PlaceCategory_ATTRACTION == <<"a", "t", "t", "r", "a", "c", "t", "i", "o", "n">>

PlaceCategory_PARK == <<"p", "a", "r", "k">>

PlaceCategory_HOSPITAL == <<"h", "o", "s", "p", "i", "t", "a", "l">>

PlaceCategory_GAS_STATION == <<"g", "a", "s", "_", "s", "t", "a", "t", "i", "o", "n">>

PlaceCategory_BANK == <<"b", "a", "n", "k">>

PlaceCategory_GYM == <<"g", "y", "m">>

PlaceCategory_PHARMACY == <<"p", "h", "a", "r", "m", "a", "c", "y">>

PlaceCategory_EVENT == <<"e", "v", "e", "n", "t">>

PlaceCategory_ENTERTAINMENT == <<"e", "n", "t", "e", "r", "t", "a", "i", "n", "m", "e", "n", "t">>

PlaceCategory_SERVICE == <<"s", "e", "r", "v", "i", "c", "e">>

PlaceCategory == {PlaceCategory_RESTAURANT, PlaceCategory_CAFE, PlaceCategory_BAR, PlaceCategory_SHOP,
                  PlaceCategory_HOTEL, PlaceCategory_ATTRACTION, PlaceCategory_PARK, PlaceCategory_HOSPITAL,
                  PlaceCategory_GAS_STATION, PlaceCategory_BANK, PlaceCategory_GYM, PlaceCategory_PHARMACY,
                  PlaceCategory_EVENT, PlaceCategory_ENTERTAINMENT, PlaceCategory_SERVICE}

----------------------------------------------------------------------------
(* discovery/services/mock-data.service.ts: MockDataService                *)

Place(id, name, category, description, open_now, image_url, lat, lng, address) ==
    [id |-> id, name |-> name, category |-> category, description |-> description,
     distance_km |-> 0, open_now |-> open_now, image_url |-> image_url,
     location |-> [lat |-> lat, lng |-> lng, address |-> address]]

\* The static mock data, as the field initialiser builds it.
MockPlaces ==
    << Place("rest_001", "Trattoria Alfredo", PlaceCategory_RESTAURANT,
             "Authentic Italian pasta, great ambiance and fresh ingredients.",
             TRUE, "https://cdn.onspotx.ai/spots/alfredo.jpg",
             407130, -740050, "123 Main St, New York, NY 10001"),
       Place("cafe_002", "Blue Bottle Coffee", PlaceCategory_CAFE,
             "Artisanal coffee roasters with specialty single-origin beans.",
             TRUE, "https://cdn.onspotx.ai/spots/blue-bottle.jpg",
             407140, -740070, "456 Broadway, New York, NY 10012"),
       Place("bar_003", "The Rooftop Lounge", PlaceCategory_BAR,
             "Upscale cocktail bar with stunning city views.",
             FALSE, "https://cdn.onspotx.ai/spots/rooftop-lounge.jpg",
             407120, -740040, "789 5th Ave, New York, NY 10019"),
       Place("shop_004", "Central Park Bookstore", PlaceCategory_SHOP,
             "Independent bookstore with rare finds and cozy reading nooks.",
             TRUE, "https://cdn.onspotx.ai/spots/bookstore.jpg",
             407150, -740030, "321 Park Ave, New York, NY 10016"),
       Place("hotel_005", "The Plaza Hotel", PlaceCategory_HOTEL,
             "Luxury hotel with world-class amenities and service.",
             TRUE, "https://cdn.onspotx.ai/spots/plaza-hotel.jpg",
             407160, -740080, "768 5th Ave, New York, NY 10019"),
       Place("attr_006", "Brooklyn Bridge", PlaceCategory_ATTRACTION,
             "Historic suspension bridge offering breathtaking views.",
             TRUE, "https://cdn.onspotx.ai/spots/brooklyn-bridge.jpg",
             407061, -739969, "Brooklyn Bridge, New York, NY 10038"),
       Place("park_007", "Central Park", PlaceCategory_PARK,
             "Iconic urban park perfect for walking, jogging, and relaxation.",
             TRUE, "https://cdn.onspotx.ai/spots/central-park.jpg",
             407829, -739654, "Central Park, New York, NY 10024"),
       Place("hosp_008", "Mount Sinai Hospital", PlaceCategory_HOSPITAL,
             "Leading medical center with comprehensive healthcare services.",
             TRUE, "https://cdn.onspotx.ai/spots/mount-sinai.jpg",
             407903, -739503, "1 Gustave L. Levy Pl, New York, NY 10029"),
       Place("gas_009", "Shell Gas Station", PlaceCategory_GAS_STATION,
             "Full-service gas station with convenience store.",
             TRUE, "https://cdn.onspotx.ai/spots/shell-station.jpg",
             407100, -740100, "555 West St, New York, NY 10014"),
       Place("bank_010", "Chase Bank", PlaceCategory_BANK,
             "Full-service bank with ATM and financial advisory services.",
             TRUE, "https://cdn.onspotx.ai/spots/chase-bank.jpg",
             407110, -740020, "999 Wall St, New York, NY 10005"),
       Place("gym_011", "Equinox Fitness", PlaceCategory_GYM,
             "Premium fitness club with state-of-the-art equipment.",
             TRUE, "https://cdn.onspotx.ai/spots/equinox.jpg",
             407170, -740010, "222 Broadway, New York, NY 10038"),
       Place("pharm_012", "CVS Pharmacy", PlaceCategory_PHARMACY,
             "Full-service pharmacy with prescription and over-the-counter medications.",
             TRUE, "https://cdn.onspotx.ai/spots/cvs-pharmacy.jpg",
             407080, -740060, "111 Houston St, New York, NY 10012") >>

\* String.prototype.toLowerCase, letter by letter.
UpperCaseLetters ==
    <<"A", "B", "C", "D", "E", "F", "G", "H", "I", "J", "K", "L", "M",
      "N", "O", "P", "Q", "R", "S", "T", "U", "V", "W", "X", "Y", "Z">>

LowerCaseLetters ==
    <<"a", "b", "c", "d", "e", "f", "g", "h", "i", "j", "k", "l", "m",
      "n", "o", "p", "q", "r", "s", "t", "u", "v", "w", "x", "y", "z">>

LowerLetter(ch) ==
    IF \E k \in 1..26 : UpperCaseLetters[k] = ch
    THEN LowerCaseLetters[CHOOSE k \in 1..26 : UpperCaseLetters[k] = ch]
    ELSE ch

toLowerCase(s) == [i \in 1..Len(s) |-> LowerLetter(s[i])]

\* [...this.mockPlaces]: a new array of the same place objects.
getAllPlaces(places) == places

getPlacesByCategory(places, category) ==
    SelectSeq(places, LAMBDA place : toLowerCase(place.category) = toLowerCase(category))

\* MockDataService.getPlaceById: find(place => place.id === id) || null
getPlaceById(places, id) ==
    IF \E k \in 1..Len(places) : places[k].id = id
    THEN [kind |-> "place",
          place |-> places[CHOOSE k \in 1..Len(places) : places[k].id = id]]
    ELSE [kind |-> "null"]

\* The repository's list after a caller assigned name to the place
\* getPlaceById(id) returned: find hands out the repository's own object.
getPlaceById_written(stored, id, name) ==
    [k \in 1..Len(stored) |->
        IF stored[k].id = id THEN [stored[k] EXCEPT !.name = name] ELSE stored[k]]

\* [...new Set(arr)]: each value once, in the order of its first occurrence.
uniqueInOrder(arr) ==
    LET firsts == SelectSeq([i \in 1..Len(arr) |-> i],
                            LAMBDA i : \A j \in 1..(i - 1) : arr[j] # arr[i])
    IN [k \in 1..Len(firsts) |-> arr[firsts[k]]]

\* MockDataService.getAvailableCategories
getAvailableCategories(places) ==
    uniqueInOrder([i \in 1..Len(places) |-> places[i].category])

\* Faulty variant: closedPlaces filters by open_now as openPlaces does.
getDataStatistics_closedAsOpen(places) ==
    [totalPlaces |-> Len(places),
     categoriesCount |-> Len(getAvailableCategories(places)),
     openPlaces |-> Len(SelectSeq(places, LAMBDA place : place.open_now)),
     closedPlaces |-> Len(SelectSeq(places, LAMBDA place : place.open_now))]

\* MockDataService.getDataStatistics
getDataStatistics(places) ==
    [totalPlaces |-> Len(places),
     categoriesCount |-> Len(getAvailableCategories(places)),
     openPlaces |-> Len(SelectSeq(places, LAMBDA place : place.open_now)),
     closedPlaces |-> Len(SelectSeq(places, LAMBDA place : ~place.open_now))]

----------------------------------------------------------------------------
(* discovery/services/mock-data.service.ts: DiscoveryService               *)

\* The values the configuration factory can hand to the constructor
\* (DEFAULT_RADIUS, MAX_RADIUS, MAX_RESULTS), radii in units of 0.01 km.
DefaultRadiusValues == {500}

MaxRadiusValues == {1000, 5000, 10000}

MaxResultsValues == {3, 50}

\* An optional property is present.
Has(q, f) == f \in DOMAIN q

\* JavaScript truthiness of an optional number: not undefined, 0 or NaN.
TruthyNumber(q, f) == Has(q, f) /\ q[f] # 0 /\ ~isNaN(q[f])

\* JavaScript truthiness of an optional string: not undefined or "".
TruthyString(q, f) == Has(q, f) /\ q[f] # <<>>

\* new Error(`Invalid <field>: <value>. Must be between <lo> and <hi>.`)
InvalidError(field, value, lo, hi) ==
    [name |-> "Error",
     message |-> [word |-> "Invalid", field |-> field, value |-> value,
                  lo |-> lo, hi |-> hi]]

NoError == [name |-> "none"]

\* The error validateQuery throws, or NoError when it returns.
validateQuery(q, maxRadiusCfg, maxResultsCfg) ==
    IF ~isValidLatitude(q.latitude)
    THEN InvalidError("latitude", q.latitude, -90 * 10^4, 90 * 10^4)
    ELSE IF ~isValidLongitude(q.longitude)
    THEN InvalidError("longitude", q.longitude, -180 * 10^4, 180 * 10^4)
    ELSE IF TruthyNumber(q, "radius") /\ (q.radius < 10 \/ q.radius > maxRadiusCfg)
    THEN InvalidError("radius", q.radius, 10, maxRadiusCfg)
    ELSE IF TruthyNumber(q, "limit") /\ (q.limit < 1 \/ q.limit > maxResultsCfg)
    THEN InvalidError("limit", q.limit, 1, maxResultsCfg)
    ELSE NoError

\* The inputs the calls below are made with.
Centers ==
    {[lat |-> 407128, lng |-> -740060], [lat |-> 407130, lng |-> -740050],
     [lat |-> 407500, lng |-> -739800], [lat |-> 900001, lng |-> -740060],
     [lat |-> 407128, lng |-> -1800001], [lat |-> NaN, lng |-> -1800001],
     [lat |-> 407128, lng |-> NaN]}

\* The pairs of a valid center and a mock place.
HaversineKeys ==
    {<<c.lat, c.lng, MockPlaces[i].location.lat, MockPlaces[i].location.lng>> :
        c \in {x \in Centers : isValidLatitude(x.lat) /\ isValidLongitude(x.lng)},
        i \in 1..Len(MockPlaces)}

\* Haversine over these pairs, evaluated once and looked up afterwards.
HaversineTable ==
    [k \in HaversineKeys |->
        Haversine([lat |-> k[1], lng |-> k[2]], [lat |-> k[3], lng |-> k[4]])]

\* DistanceUtil.calculateDistance
calculateDistance(point1, point2) ==
    IF <<point1.lat, point1.lng, point2.lat, point2.lng>> \in HaversineKeys
    THEN HaversineTable[<<point1.lat, point1.lng, point2.lat, point2.lng>>]
    ELSE Haversine(point1, point2)

\* Faulty variant: the spread keeps the distance the place came with.
calculateDistances_stale(places, centerPoint) == places

\* Faulty variant: the copy is given the query's center as its location.
calculateDistances_centerAsLocation(places, centerPoint) ==
    [i \in 1..Len(places) |->
        [places[i] EXCEPT !.distance_km = calculateDistance(centerPoint, places[i].location),
                          !.location = [lat |-> centerPoint.lat, lng |-> centerPoint.lng,
                                        address |-> places[i].location.address]]]

calculateDistances(places, centerPoint) ==
    [i \in 1..Len(places) |->
        [places[i] EXCEPT !.distance_km = calculateDistance(centerPoint, places[i].location)]]

\* Faulty variant: distance_km is assigned to the place object itself, which
\* is the repository's.
calculateDistances_stored_assigned(stored, places, centerPoint) ==
    [k \in 1..Len(stored) |->
        IF \E i \in 1..Len(places) : places[i].id = stored[k].id
        THEN [stored[k] EXCEPT !.distance_km = calculateDistance(centerPoint, stored[k].location)]
        ELSE stored[k]]

\* What the repository's place objects hold after calculateDistances(places,
\* centerPoint): { ...place, distance_km } is a new object each time, the
\* object of the repository is only read.
calculateDistances_stored(stored, places, centerPoint) == stored

\* The repository's list after a caller assigned name to the result with
\* this id: { ...place } copied the top-level properties into a new object.
calculateDistances_writtenName(stored, id, name) == stored

\* The repository's list after a caller assigned lat to the location of the
\* result with this id: { ...place } copied the reference, so the location
\* object is the repository's.
calculateDistances_writtenLocation(stored, id, lat) ==
    [k \in 1..Len(stored) |->
        IF stored[k].id = id THEN [stored[k] EXCEPT !.location.lat = lat] ELSE stored[k]]

\* Faulty variant: the radius itself is left out.
filterByRadius_exclusive(places, radius) ==
    SelectSeq(places, LAMBDA place : place.distance_km < radius)

filterByRadius(places, radius) ==
    SelectSeq(places, LAMBDA place : place.distance_km <= radius)

\* Faulty variant: a sort that is not stable, a place going before the
\* places of its distance that came before it.
RECURSIVE sortByDistance_unstable(_)
sortByDistance_unstable(places) ==
    IF Len(places) <= 1 THEN places
    ELSE LET head == sortByDistance_unstable(SubSeq(places, 1, Len(places) - 1))
             last == places[Len(places)]
             k == Cardinality({i \in 1..Len(head) :
                                  head[i].distance_km - last.distance_km < 0})
         IN SubSeq(head, 1, k) \o <<last>> \o SubSeq(head, k + 1, Len(head))

\* Faulty variant: the array is returned as it came.
sortByDistance_unsorted(places) == places

\* Array.prototype.sort with the comparator (a, b) => a.distance_km - b.distance_km:
\* a stable sort, here by insertion.
RECURSIVE sortByDistance(_)
sortByDistance(places) ==
    IF Len(places) <= 1 THEN places
    ELSE LET head == sortByDistance(SubSeq(places, 1, Len(places) - 1))
             last == places[Len(places)]
             k == Cardinality({i \in 1..Len(head) :
                                  head[i].distance_km - last.distance_km <= 0})
         IN SubSeq(head, 1, k) \o <<last>> \o SubSeq(head, k + 1, Len(head))

Min(a, b) == IF a < b THEN a ELSE b

Max(a, b) == IF a > b THEN a ELSE b

\* Array.prototype.slice(0, end)
slice(arr, end) ==
    SubSeq(arr, 1, IF end < 0 THEN Max(Len(arr) + end, 0) ELSE Min(end, Len(arr)))

\* const radius = query.radius || this.defaultRadius
resolveRadius(q, defaultRadiusCfg) ==
    IF TruthyNumber(q, "radius") THEN q.radius ELSE defaultRadiusCfg

\* const limit = Math.min(query.limit || 10, this.maxResults)
resolveLimit(q, maxResultsCfg) ==
    Min(IF TruthyNumber(q, "limit") THEN q.limit ELSE 10, maxResultsCfg)

\* const allPlaces = query.category ? getPlacesByCategory(...) : getAllPlaces()
allPlacesOf(q, places) ==
    IF TruthyString(q, "category") THEN getPlacesByCategory(places, q.category)
    ELSE getAllPlaces(places)

\* const centerPoint = { lat: query.latitude, lng: query.longitude }
centerPointOf(q) == [lat |-> q.latitude, lng |-> q.longitude]

\* The base data, the distances, the radius filter and the sort.
sortedPlacesOf(q, places, radius) ==
    sortByDistance(filterByRadius(calculateDistances(allPlacesOf(q, places),
                                                     centerPointOf(q)),
                                  radius))

\* Faulty variant: total counts the places in the radius, before the limit.
buildResponse_totalBeforeLimit(q, radius, limit, sortedPlaces, startTime, endTime, stamp) ==
    [results |-> slice(sortedPlaces, limit),
     total |-> Len(sortedPlaces),
     query |-> [f \in DOMAIN q \cup {"radius", "limit"} |->
                  IF f = "radius" THEN radius ELSE IF f = "limit" THEN limit ELSE q[f]],
     metadata |-> [processing_time_ms |-> endTime - startTime, timestamp |-> stamp]]

\* The limit and the response object.  startTime, endTime and stamp are the
\* call's three readings of the clock.
buildResponse(q, radius, limit, sortedPlaces, startTime, endTime, stamp) ==
    LET limitedResults == slice(sortedPlaces, limit)
        echo == [latitude |-> q.latitude, longitude |-> q.longitude,
                 radius |-> radius, limit |-> limit]
    IN [results |-> limitedResults,
        total |-> Len(limitedResults),
        query |-> IF Has(q, "category") THEN echo @@ [category |-> q.category] ELSE echo,
        metadata |-> [processing_time_ms |-> endTime - startTime, timestamp |-> stamp]]

\* discoverPlaces: the response it resolves to, or the error it rejects with.
discoverPlaces(q, places, defaultRadiusCfg, maxRadiusCfg, maxResultsCfg, startTime, endTime, stamp) ==
    LET error == validateQuery(q, maxRadiusCfg, maxResultsCfg)
        radius == resolveRadius(q, defaultRadiusCfg)
        limit == resolveLimit(q, maxResultsCfg)
    IN IF error # NoError
       THEN [kind |-> "error", error |-> error]
       ELSE [kind |-> "response",
             response |-> buildResponse(q, radius, limit,
                                        sortedPlacesOf(q, places, radius),
                                        startTime, endTime, stamp)]

\* Faulty variant: the default of the limit is written into the query.
discoverPlaces_query_limitWritten(q) ==
    [f \in DOMAIN q \cup {"limit"} |->
        IF f = "limit" THEN IF TruthyNumber(q, "limit") THEN q.limit ELSE 10
        ELSE q[f]]

\* The query object after discoverPlaces(q): the call reads its properties
\* into radius, limit and centerPoint and assigns none.
discoverPlaces_query(q) == q

\* Faulty variant: the pipeline works on the repository's own array, which
\* the in-place sort leaves ordered by the distance to this query's center.
discoverPlaces_stored_sortedInPlace(q, stored, maxRadiusCfg, maxResultsCfg) ==
    IF validateQuery(q, maxRadiusCfg, maxResultsCfg) # NoError THEN stored
    ELSE [k \in 1..Len(stored) |->
            [sortByDistance(calculateDistances(stored, centerPointOf(q)))[k]
                EXCEPT !.distance_km = 0]]

\* The repository's list after one discoverPlaces call: filter and map build
\* new arrays, so the array sortByDistance sorts in place is never the
\* repository's, and the objects are written by calculateDistances alone.
discoverPlaces_stored(q, stored, maxRadiusCfg, maxResultsCfg) ==
    IF validateQuery(q, maxRadiusCfg, maxResultsCfg) # NoError THEN stored
    ELSE calculateDistances_stored(stored, allPlacesOf(q, stored), centerPointOf(q))

\* DiscoveryService.getAvailableCategories
serviceGetAvailableCategories(places) == getAvailableCategories(places)

\* DiscoveryService.getServiceStatistics
getServiceStatistics(places, defaultRadiusCfg, maxRadiusCfg, maxResultsCfg) ==
    [dataStats |-> getDataStatistics(places),
     config |-> [defaultRadius |-> defaultRadiusCfg, maxRadius |-> maxRadiusCfg,
                 maxResults |-> maxResultsCfg]]

\* Faulty variant: the base data is fetched before the query is validated.
repositoryCalls_fetchFirst(q, maxRadiusCfg, maxResultsCfg) ==
    <<IF TruthyString(q, "category") THEN "getPlacesByCategory" ELSE "getAllPlaces">>

\* The methods of MockDataService one discoverPlaces call invokes, in order:
\* none when validateQuery throws, one of the two fetches after it returned.
repositoryCalls(q, maxRadiusCfg, maxResultsCfg) ==
    IF validateQuery(q, maxRadiusCfg, maxResultsCfg) # NoError THEN <<>>
    ELSE <<IF TruthyString(q, "category") THEN "getPlacesByCategory" ELSE "getAllPlaces">>

\* The query findNearestPlace builds: the largest radius, one result.
nearestQuery(args, maxRadiusCfg) == args @@ [radius |-> maxRadiusCfg, limit |-> 1]

\* return response.results.length > 0 ? response.results[0] : null, or the
\* error the awaited discoverPlaces rejected with.
firstResultOf(settled) ==
    IF settled.kind = "error" THEN settled
    ELSE IF Len(settled.response.results) > 0
    THEN [kind |-> "place", place |-> settled.response.results[1]]
    ELSE [kind |-> "null"]

\* findNearestPlace(latitude, longitude, category): args holds the arguments,
\* category left out when it is undefined.
findNearestPlace(args, places, defaultRadiusCfg, maxRadiusCfg, maxResultsCfg, startTime, endTime, stamp) ==
    firstResultOf(discoverPlaces(nearestQuery(args, maxRadiusCfg), places, defaultRadiusCfg,
                                 maxRadiusCfg, maxResultsCfg, startTime, endTime, stamp))

----------------------------------------------------------------------------
(* discovery/dto/discovery-query.dto.ts, discovery/controllers/            *)
(* discovery.controller.ts: the HTTP boundary.  A request's query string   *)
(* is a record of its parameters; a numeric parameter is held as the       *)
(* number Number(text) converts it to, NaN for text that is no number.     *)

HttpStatus_OK == 200

HttpStatus_BAD_REQUEST == 400

HttpStatus_INTERNAL_SERVER_ERROR == 500

\* The properties DiscoveryQueryDto declares.
DtoProperties == {"latitude", "longitude", "radius", "category", "limit"}

\* plainToInstance(DiscoveryQueryDto, plain): the initialisers radius = 5.0 and
\* limit = 10 stay where the query string has no such parameter, the category
\* is lower-cased by its @Transform.
plainToInstance(plain) ==
    [f \in DOMAIN plain \cup {"radius", "limit"} |->
        IF f \notin DOMAIN plain THEN (IF f = "radius" THEN 500 ELSE 10)
        ELSE IF f = "category" THEN toLowerCase(plain[f])
        ELSE plain[f]]

\* @IsNumber(), @Min(lo), @Max(hi) on one property: the messages of the
\* constraints it breaks.  undefined and NaN break all three.
numberErrors(dto, f, lo, hi, notNumber, tooSmall, tooLarge) ==
    (IF Has(dto, f) /\ ~isNaN(dto[f]) THEN <<>> ELSE <<notNumber>>)
    \o (IF Has(dto, f) /\ ~isNaN(dto[f]) /\ dto[f] >= lo THEN <<>> ELSE <<tooSmall>>)
    \o (IF Has(dto, f) /\ ~isNaN(dto[f]) /\ dto[f] <= hi THEN <<>> ELSE <<tooLarge>>)

\* The same behind @IsOptional(): an undefined property breaks nothing.
optionalNumberErrors(dto, f, lo, hi, notNumber, tooSmall, tooLarge) ==
    IF Has(dto, f) THEN numberErrors(dto, f, lo, hi, notNumber, tooSmall, tooLarge)
    ELSE <<>>

\* @IsOptional() @IsString() @IsEnum(PlaceCategory) on category.
categoryErrors(dto) ==
    IF Has(dto, "category") /\ dto.category \notin PlaceCategory
    THEN <<"Category must be one of: ...">>
    ELSE <<>>

\* forbidNonWhitelisted: a parameter the DTO does not declare.
whitelistErrors(dto) ==
    IF DOMAIN dto \subseteq DtoProperties THEN <<>> ELSE <<"property should not exist">>

\* class-validator's validate(dto): the messages of every broken constraint.
validateDto(dto) ==
    numberErrors(dto, "latitude", -90 * 10^4, 90 * 10^4, "Latitude must be a valid number",
                 "Latitude must be between -90 and 90", "Latitude must be between -90 and 90")
    \o numberErrors(dto, "longitude", -180 * 10^4, 180 * 10^4,
                    "Longitude must be a valid number",
                    "Longitude must be between -180 and 180",
                    "Longitude must be between -180 and 180")
    \o optionalNumberErrors(dto, "radius", 10, 5000, "Radius must be a valid number",
                            "Radius must be at least 0.1 km", "Radius cannot exceed 50 km")
    \o categoryErrors(dto)
    \o optionalNumberErrors(dto, "limit", 1, 50, "Limit must be a valid number",
                            "Limit must be at least 1", "Limit cannot exceed 50")
    \o whitelistErrors(dto)

\* The body of an HttpException.
ErrorBody(statusCode, message, error) ==
    [statusCode |-> statusCode, message |-> message, error |-> error]

\* The global ValidationPipe on @Query() queryDto: the DTO instance, or the
\* BadRequestException carrying the messages.
validationPipe(plain) ==
    IF validateDto(plainToInstance(plain)) = <<>>
    THEN [kind |-> "dto", dto |-> plainToInstance(plain)]
    ELSE [kind |-> "exception",
          reply |-> [status |-> HttpStatus_BAD_REQUEST,
                     body |-> ErrorBody(HttpStatus_BAD_REQUEST,
                                        validateDto(plainToInstance(plain)), "Bad Request")]]

\* const query: DiscoveryQuery = { latitude: queryDto.latitude, ... }: a
\* property that is undefined in the DTO is undefined in the query.
controllerQuery(queryDto) == [f \in DOMAIN queryDto \cap DtoProperties |-> queryDto[f]]

\* error.message.includes('Invalid')
includesInvalid(message) == message.word = "Invalid"

\* Faulty variant: every error of the service becomes a 500.
discoverPlacesReply_always500(settled) ==
    IF settled.kind = "response"
    THEN [status |-> HttpStatus_OK, body |-> settled.response]
    ELSE [status |-> HttpStatus_INTERNAL_SERVER_ERROR,
          body |-> ErrorBody(HttpStatus_INTERNAL_SERVER_ERROR,
                             "An error occurred while discovering places",
                             "Internal Server Error")]

\* DiscoveryController.discoverPlaces after the await: the response, or the
\* HttpException the catch block throws.
discoverPlacesReply(settled) ==
    IF settled.kind = "response"
    THEN [status |-> HttpStatus_OK, body |-> settled.response]
    ELSE IF includesInvalid(settled.error.message)
    THEN [status |-> HttpStatus_BAD_REQUEST,
          body |-> ErrorBody(HttpStatus_BAD_REQUEST, settled.error.message, "Bad Request")]
    ELSE [status |-> HttpStatus_INTERNAL_SERVER_ERROR,
          body |-> ErrorBody(HttpStatus_INTERNAL_SERVER_ERROR,
                             "An error occurred while discovering places",
                             "Internal Server Error")]

\* DiscoveryController.findNearest after the await: { place }, or the
\* HttpException the catch block throws.
findNearestReply(settled) ==
    IF settled.kind = "error"
    THEN [status |-> HttpStatus_INTERNAL_SERVER_ERROR,
          body |-> ErrorBody(HttpStatus_INTERNAL_SERVER_ERROR,
                             "An error occurred while finding nearest place",
                             "Internal Server Error")]
    ELSE [status |-> HttpStatus_OK, body |-> [place |-> settled]]

\* Faulty variant: total is the number of members of PlaceCategory.
getCategoriesReply_totalOfEnum(categories) ==
    [status |-> HttpStatus_OK,
     body |-> [categories |-> categories, total |-> Cardinality(PlaceCategory)]]

\* DiscoveryController.getCategories: { categories, total: categories.length }
getCategoriesReply(categories) ==
    [status |-> HttpStatus_OK,
     body |-> [categories |-> categories, total |-> Len(categories)]]

\* DiscoveryController.getStatistics: the statistics object as it is.
getStatisticsReply(statistics) == [status |-> HttpStatus_OK, body |-> statistics]

----------------------------------------------------------------------------
(* The calls made on the service.                                          *)

MaxClock == 1

Radii == {0, 5, 10, 39, 1000, 5000, -100}

Limits == {0, 1, 3, 5, 50, -1}

Categories ==
    {<<>>, <<"C", "a", "f", "e">>, PlaceCategory_HOTEL, PlaceCategory_EVENT, <<"z", "o", "o">>}

\* The DiscoveryQuery objects: radius, category and limit are optional.
Queries ==
    LET required == {[latitude |-> c.lat, longitude |-> c.lng] : c \in Centers}
        withRadius == required \cup
            {q @@ [radius |-> r] : q \in required, r \in Radii}
        withLimit == withRadius \cup
            {q @@ [limit |-> l] : q \in withRadius, l \in Limits}
    IN withLimit \cup {q @@ [category |-> c] : q \in withLimit, c \in Categories}

\* The arguments of findNearestPlace: category is optional.
NearestArgs ==
    LET required == {[latitude |-> c.lat, longitude |-> c.lng] : c \in Centers}
    IN required \cup {a @@ [category |-> c] : a \in required, c \in Categories}

NoResult == [kind |-> "none"]

\* Valid coordinates handed to calculateDistance: the poles, the equator, the
\* date line, and the location of a repository place.
Points ==
    {[lat |-> a, lng |-> b] :
        a \in {-900000, 0, 407130, 900000}, b \in {-1800000, -740050, 0, 1800000}}

\* The query strings of GET /discover: every parameter may be missing, and
\* foo is a parameter the DTO does not declare.
DiscoverRequests ==
    LET none == {<<>>}
        latitude == none \cup {[latitude |-> x] : x \in {407128, 910000, NaN}}
        longitude == none \cup {[longitude |-> x] : x \in {-740060, -1810000}}
        radius == none \cup {[radius |-> x] : x \in {0, 2000, 6000}}
        limit == none \cup {[limit |-> x] : x \in {0, 5, 51}}
        category == none \cup {[category |-> x] : x \in {<<"C", "a", "f", "e">>, <<"z", "o", "o">>}}
        foo == none \cup {[foo |-> 1]}
    IN {a @@ b @@ c @@ d @@ e @@ f :
           a \in latitude, b \in longitude, c \in radius, d \in limit,
           e \in category, f \in foo}

\* The query strings of GET /discover/nearest, after the pipe's conversion of
\* latitude and longitude to numbers: a missing one converts to NaN.
NearestRequests ==
    LET required == {[latitude |-> x, longitude |-> y] :
                        x \in {407128, 910000, NaN}, y \in {-740060, -1810000}}
    IN required \cup {a @@ [category |-> c] : a \in required, c \in Categories}

NoRequest == [path |-> "none"]

\* Errors other than validateQuery's that the awaited service call may
\* reject with: a RangeError 'Invalid time value', a TypeError 'Cannot read
\* properties of undefined'.
Faults ==
    {[name |-> "RangeError", message |-> [word |-> "Invalid", rest |-> "time value"]],
     [name |-> "TypeError",
      message |-> [word |-> "Cannot", rest |-> "read properties of undefined"]]}

\* The queries a caller repeats.
RepeatQueries ==
    <<[latitude |-> 407128, longitude |-> -740060],
      [latitude |-> 407130, longitude |-> -740050],
      [latitude |-> 407128, longitude |-> -740060, limit |-> 5,
       category |-> <<"C", "a", "f", "e">>],
      [latitude |-> 900001, longitude |-> -740060]>>

\* The calls a caller makes between two calls with the same query.
BetweenNearestArgs ==
    {[latitude |-> 407130, longitude |-> -740050],
     [latitude |-> 407500, longitude |-> -739800, category |-> PlaceCategory_HOTEL]}

\* The callers that have calls in progress at the same time.
Callers == {"a", "b"}

\* No caller has called.
NoCalls == [c \in Callers |-> [stage |-> "idle"]]

\* What a caller compares of two calls: results and total of a response, the
\* error of a rejection.
outcomeOf(settled) ==
    IF settled.kind = "response"
    THEN [kind |-> "response", results |-> settled.response.results,
          total |-> settled.response.total]
    ELSE settled

\* Nothing was asked yet, and no call with a repeated query is in progress.
NoHistory ==
    [first |-> [i \in 1..Len(RepeatQueries) |-> [kind |-> "none"]], current |-> 0]

\* Another call was made: it lies between the first call of each query
\* asked so far and that query's next call.
noteBetween(h) ==
    [first |-> [j \in DOMAIN h.first |->
                  IF h.first[j].kind = "first"
                  THEN [h.first[j] EXCEPT !.between = TRUE] ELSE h.first[j]],
     current |-> 0]

\* RepeatQueries[i] was asked and settled to outcome: the first time is
\* remembered, and the call lies between the calls of the other queries.
noteCall(h, i, outcome) ==
    [first |-> [j \in DOMAIN h.first |->
                  IF j = i /\ h.first[j].kind = "none"
                  THEN [kind |-> "first", outcome |-> outcome, between |-> FALSE]
                  ELSE IF j # i /\ h.first[j].kind = "first"
                  THEN [h.first[j] EXCEPT !.between = TRUE]
                  ELSE h.first[j]],
     current |-> i]

NoReply == [status |-> 0]

Init ==
    /\ defaultRadius \in DefaultRadiusValues
    /\ maxRadius \in MaxRadiusValues
    /\ maxResults \in MaxResultsValues
    /\ mockPlaces = MockPlaces
    /\ pc = "idle"
    /\ query = <<>>
    /\ result = NoResult
    /\ request = NoRequest
    /\ reply = NoReply
    /\ accesses = <<>>
    /\ history = NoHistory
    /\ calls = NoCalls

\* A caller awaits discoverPlaces(q); the call runs to completion.
DiscoverPlaces ==
    /\ pc = "idle"
    /\ \E q \in Queries, startTime \in 0..MaxClock :
         \E endTime \in startTime..MaxClock :
           \E stamp \in endTime..MaxClock :
             /\ query' = q
             /\ result' = discoverPlaces(q, mockPlaces, defaultRadius, maxRadius,
                                         maxResults, startTime, endTime, stamp)
             /\ accesses' = repositoryCalls(q, maxRadius, maxResults)
             /\ mockPlaces' = discoverPlaces_stored(q, mockPlaces, maxRadius, maxResults)
    /\ pc' = "settled"
    /\ UNCHANGED <<history, calls, defaultRadius, maxRadius, maxResults, request, reply>>

\* A caller awaits findNearestPlace(latitude, longitude, category); query is
\* the query it hands to discoverPlaces.
FindNearestPlace ==
    /\ pc = "idle"
    /\ \E args \in NearestArgs, startTime \in 0..MaxClock :
         \E endTime \in startTime..MaxClock :
           \E stamp \in endTime..MaxClock :
             /\ query' = nearestQuery(args, maxRadius)
             /\ result' = findNearestPlace(args, mockPlaces, defaultRadius, maxRadius,
                                           maxResults, startTime, endTime, stamp)
             /\ accesses' = repositoryCalls(nearestQuery(args, maxRadius), maxRadius, maxResults)
             /\ mockPlaces' = discoverPlaces_stored(nearestQuery(args, maxRadius), mockPlaces,
                                                    maxRadius, maxResults)
    /\ pc' = "settled"
    /\ UNCHANGED <<history, calls, defaultRadius, maxRadius, maxResults, request, reply>>

\* GET /discover: the validation pipe, then DiscoveryController.discoverPlaces
\* around the service's discoverPlaces.
GetDiscover ==
    /\ pc = "idle"
    /\ \E plain \in DiscoverRequests, startTime \in 0..MaxClock :
         \E endTime \in startTime..MaxClock :
           \E stamp \in endTime..MaxClock :
             /\ request' = [path |-> "/discover", query |-> plain]
             /\ query' = IF validationPipe(plain).kind = "dto"
                         THEN controllerQuery(validationPipe(plain).dto)
                         ELSE <<>>
             /\ result' = IF validationPipe(plain).kind = "dto"
                          THEN discoverPlaces(controllerQuery(validationPipe(plain).dto),
                                              mockPlaces, defaultRadius, maxRadius,
                                              maxResults, startTime, endTime, stamp)
                          ELSE NoResult
             /\ reply' = IF validationPipe(plain).kind = "dto"
                         THEN discoverPlacesReply(result')
                         ELSE validationPipe(plain).reply
             /\ accesses' = IF validationPipe(plain).kind = "dto"
                            THEN repositoryCalls(controllerQuery(validationPipe(plain).dto),
                                                 maxRadius, maxResults)
                            ELSE <<>>
             /\ mockPlaces' = IF validationPipe(plain).kind = "dto"
                              THEN discoverPlaces_stored(
                                       controllerQuery(validationPipe(plain).dto),
                                       mockPlaces, maxRadius, maxResults)
                              ELSE mockPlaces
    /\ pc' = "responded"
    /\ UNCHANGED <<history, calls, defaultRadius, maxRadius, maxResults>>

\* GET /discover/nearest: DiscoveryController.findNearest around the
\* service's findNearestPlace.
GetDiscoverNearest ==
    /\ pc = "idle"
    /\ \E args \in NearestRequests, startTime \in 0..MaxClock :
         \E endTime \in startTime..MaxClock :
           \E stamp \in endTime..MaxClock :
             /\ request' = [path |-> "/discover/nearest", query |-> args]
             /\ query' = nearestQuery(args, maxRadius)
             /\ result' = findNearestPlace(args, mockPlaces, defaultRadius, maxRadius,
                                           maxResults, startTime, endTime, stamp)
             /\ accesses' = repositoryCalls(nearestQuery(args, maxRadius), maxRadius, maxResults)
             /\ reply' = findNearestReply(result')
             /\ mockPlaces' = discoverPlaces_stored(nearestQuery(args, maxRadius), mockPlaces,
                                                    maxRadius, maxResults)
    /\ pc' = "responded"
    /\ UNCHANGED <<history, calls, defaultRadius, maxRadius, maxResults>>

\* getAvailableCategories(): a synchronous read.
GetAvailableCategories ==
    /\ pc = "idle"
    /\ result' = [kind |-> "categories",
                  categories |-> serviceGetAvailableCategories(mockPlaces)]
    /\ pc' = "returned"
    /\ UNCHANGED <<history, calls, defaultRadius, maxRadius, maxResults, mockPlaces, query, request, reply,
                   accesses>>

\* getServiceStatistics(): a synchronous read.
GetServiceStatistics ==
    /\ pc = "idle"
    /\ result' = [kind |-> "statistics",
                  statistics |-> getServiceStatistics(mockPlaces, defaultRadius, maxRadius,
                                                      maxResults)]
    /\ pc' = "returned"
    /\ UNCHANGED <<history, calls, defaultRadius, maxRadius, maxResults, mockPlaces, query, request, reply,
                   accesses>>

\* DistanceUtil.calculateDistance(point1, point2), called on its own.
CalculateDistance ==
    /\ pc = "idle"
    /\ \E point1 \in Points, point2 \in Points :
         /\ query' = [point1 |-> point1, point2 |-> point2]
         /\ result' = [kind |-> "distance", distance |-> calculateDistance(point1, point2)]
    /\ pc' = "returned"
    /\ UNCHANGED <<history, calls, defaultRadius, maxRadius, maxResults, mockPlaces, request,
                   reply, accesses>>

\* GET /discover/categories: DiscoveryController.getCategories.
GetDiscoverCategories ==
    /\ pc = "idle"
    /\ request' = [path |-> "/discover/categories", query |-> <<>>]
    /\ result' = [kind |-> "categories",
                  categories |-> serviceGetAvailableCategories(mockPlaces)]
    /\ reply' = getCategoriesReply(result'.categories)
    /\ pc' = "responded"
    /\ UNCHANGED <<history, calls, defaultRadius, maxRadius, maxResults, mockPlaces, query,
                   accesses>>

\* GET /discover/stats: DiscoveryController.getStatistics.
GetDiscoverStats ==
    /\ pc = "idle"
    /\ request' = [path |-> "/discover/stats", query |-> <<>>]
    /\ result' = [kind |-> "statistics",
                  statistics |-> getServiceStatistics(mockPlaces, defaultRadius, maxRadius,
                                                      maxResults)]
    /\ reply' = getStatisticsReply(result'.statistics)
    /\ pc' = "responded"
    /\ UNCHANGED <<history, calls, defaultRadius, maxRadius, maxResults, mockPlaces, query,
                   accesses>>

\* The caller is done with what the call settled to or returned, or the
\* response is sent.
Release ==
    /\ pc \in {"settled", "responded", "returned"}
    /\ pc' = "idle"
    /\ query' = <<>>
    /\ result' = NoResult
    /\ request' = NoRequest
    /\ reply' = NoReply
    /\ accesses' = <<>>
    /\ UNCHANGED <<history, calls, defaultRadius, maxRadius, maxResults, mockPlaces>>

Next ==
    \/ DiscoverPlaces
    \/ FindNearestPlace
    \/ GetAvailableCategories
    \/ GetServiceStatistics
    \/ CalculateDistance
    \/ GetDiscover
    \/ GetDiscoverNearest
    \/ GetDiscoverCategories
    \/ GetDiscoverStats
    \/ Release

Spec == Init /\ [][Next]_vars

----------------------------------------------------------------------------
(* A caller that repeats queries, with other calls in between.             *)

\* discoverPlaces(RepeatQueries[i]), awaited.
RepeatDiscoverPlaces ==
    /\ pc = "idle"
    /\ \E i \in 1..Len(RepeatQueries), startTime \in 0..MaxClock :
         \E endTime \in startTime..MaxClock :
           \E stamp \in endTime..MaxClock :
             /\ query' = RepeatQueries[i]
             /\ result' = discoverPlaces(RepeatQueries[i], mockPlaces, defaultRadius,
                                         maxRadius, maxResults, startTime, endTime, stamp)
             /\ accesses' = repositoryCalls(RepeatQueries[i], maxRadius, maxResults)
             /\ mockPlaces' = discoverPlaces_stored(RepeatQueries[i], mockPlaces, maxRadius,
                                                    maxResults)
             /\ history' = noteCall(history, i, outcomeOf(result'))
    /\ pc' = "settled"
    /\ UNCHANGED <<calls, defaultRadius, maxRadius, maxResults, request, reply>>

\* findNearestPlace, awaited, between two calls of a query.
BetweenFindNearestPlace ==
    /\ pc = "idle"
    /\ \E args \in BetweenNearestArgs, startTime \in 0..MaxClock :
         \E endTime \in startTime..MaxClock :
           \E stamp \in endTime..MaxClock :
             /\ query' = nearestQuery(args, maxRadius)
             /\ result' = findNearestPlace(args, mockPlaces, defaultRadius, maxRadius,
                                           maxResults, startTime, endTime, stamp)
             /\ accesses' = repositoryCalls(nearestQuery(args, maxRadius), maxRadius, maxResults)
             /\ mockPlaces' = discoverPlaces_stored(nearestQuery(args, maxRadius), mockPlaces,
                                                    maxRadius, maxResults)
    /\ history' = noteBetween(history)
    /\ pc' = "settled"
    /\ UNCHANGED <<calls, defaultRadius, maxRadius, maxResults, request, reply>>

\* getAvailableCategories() between two calls of a query.
BetweenGetAvailableCategories ==
    /\ pc = "idle"
    /\ result' = [kind |-> "categories",
                  categories |-> serviceGetAvailableCategories(mockPlaces)]
    /\ history' = noteBetween(history)
    /\ pc' = "returned"
    /\ UNCHANGED <<calls, defaultRadius, maxRadius, maxResults, mockPlaces, query, request,
                   reply, accesses>>

\* getServiceStatistics() between two calls of a query.
BetweenGetServiceStatistics ==
    /\ pc = "idle"
    /\ result' = [kind |-> "statistics",
                  statistics |-> getServiceStatistics(mockPlaces, defaultRadius, maxRadius,
                                                      maxResults)]
    /\ history' = noteBetween(history)
    /\ pc' = "returned"
    /\ UNCHANGED <<calls, defaultRadius, maxRadius, maxResults, mockPlaces, query, request,
                   reply, accesses>>

\* The caller is done with what the call settled to or returned.
RepeatRelease ==
    /\ pc \in {"settled", "returned"}
    /\ pc' = "idle"
    /\ query' = <<>>
    /\ result' = NoResult
    /\ accesses' = <<>>
    /\ history' = [history EXCEPT !.current = 0]
    /\ UNCHANGED <<calls, defaultRadius, maxRadius, maxResults, mockPlaces, request, reply>>

NextRepeat ==
    \/ RepeatDiscoverPlaces
    \/ BetweenFindNearestPlace
    \/ BetweenGetAvailableCategories
    \/ BetweenGetServiceStatistics
    \/ RepeatRelease

SpecRepeat == Init /\ [][NextRepeat]_vars

----------------------------------------------------------------------------
(* GET /discover with a service call that may fail for another reason than *)
(* validation.                                                             *)

\* GET /discover: the query passes the pipe and validateQuery, and the
\* awaited call rejects with a fault raised after the fetch.
GetDiscoverFaulted ==
    /\ pc = "idle"
    /\ \E plain \in DiscoverRequests, fault \in Faults :
         /\ validationPipe(plain).kind = "dto"
         /\ validateQuery(controllerQuery(validationPipe(plain).dto), maxRadius, maxResults)
                = NoError
         /\ request' = [path |-> "/discover", query |-> plain]
         /\ query' = controllerQuery(validationPipe(plain).dto)
         /\ result' = [kind |-> "error", error |-> fault]
         /\ reply' = discoverPlacesReply(result')
         /\ accesses' = repositoryCalls(controllerQuery(validationPipe(plain).dto),
                                        maxRadius, maxResults)
    /\ pc' = "responded"
    /\ UNCHANGED <<history, calls, defaultRadius, maxRadius, maxResults, mockPlaces>>

NextFault ==
    \/ GetDiscover
    \/ GetDiscoverFaulted
    \/ Release

SpecFault == Init /\ [][NextFault]_vars

----------------------------------------------------------------------------
(* A caller that changes the objects it was handed, once, and calls again. *)

\* discoverPlaces(RepeatQueries[i]), awaited.
CallerDiscoverPlaces ==
    /\ pc = "idle"
    /\ \E i \in 1..Len(RepeatQueries), startTime \in 0..MaxClock :
         \E endTime \in startTime..MaxClock :
           \E stamp \in endTime..MaxClock :
             /\ query' = RepeatQueries[i]
             /\ result' = discoverPlaces(RepeatQueries[i], mockPlaces, defaultRadius,
                                         maxRadius, maxResults, startTime, endTime, stamp)
             /\ accesses' = repositoryCalls(RepeatQueries[i], maxRadius, maxResults)
             /\ mockPlaces' = discoverPlaces_stored(RepeatQueries[i], mockPlaces, maxRadius,
                                                    maxResults)
    /\ pc' = "settled"
    /\ UNCHANGED <<history, calls, defaultRadius, maxRadius, maxResults, request, reply>>

\* getPlaceById(id) on the repository.
CallerGetPlaceById ==
    /\ pc = "idle"
    /\ \E id \in {"rest_001", "bank_010", "none_000"} :
         /\ query' = [id |-> id]
         /\ result' = [kind |-> "found", found |-> getPlaceById(mockPlaces, id)]
    /\ pc' = "returned"
    /\ UNCHANGED <<history, calls, defaultRadius, maxRadius, maxResults, mockPlaces, request,
                   reply, accesses>>

\* The caller assigns to the name of a result, and is done with the response.
CallerWritesResultName ==
    /\ pc = "settled" /\ result.kind = "response" /\ mockPlaces = MockPlaces
    /\ \E i \in 1..Len(result.response.results) :
         mockPlaces' = calculateDistances_writtenName(mockPlaces,
                                                      result.response.results[i].id, "changed")
    /\ pc' = "idle"
    /\ query' = <<>>
    /\ result' = NoResult
    /\ accesses' = <<>>
    /\ UNCHANGED <<history, calls, defaultRadius, maxRadius, maxResults, request, reply>>

\* The caller assigns to location.lat of a result, and is done with the
\* response.
CallerWritesResultLocation ==
    /\ pc = "settled" /\ result.kind = "response" /\ mockPlaces = MockPlaces
    /\ \E i \in 1..Len(result.response.results) :
         mockPlaces' = calculateDistances_writtenLocation(mockPlaces,
                                                          result.response.results[i].id, 0)
    /\ pc' = "idle"
    /\ query' = <<>>
    /\ result' = NoResult
    /\ accesses' = <<>>
    /\ UNCHANGED <<history, calls, defaultRadius, maxRadius, maxResults, request, reply>>

\* The caller assigns to the name of the place getPlaceById returned, and is
\* done with it.
CallerWritesFoundName ==
    /\ pc = "returned" /\ result.kind = "found" /\ result.found.kind = "place"
    /\ mockPlaces = MockPlaces
    /\ mockPlaces' = getPlaceById_written(mockPlaces, result.found.place.id, "changed")
    /\ pc' = "idle"
    /\ query' = <<>>
    /\ result' = NoResult
    /\ UNCHANGED <<history, calls, defaultRadius, maxRadius, maxResults, request, reply,
                   accesses>>

NextCaller ==
    \/ CallerDiscoverPlaces
    \/ CallerGetPlaceById
    \/ CallerWritesResultName
    \/ CallerWritesResultLocation
    \/ CallerWritesFoundName
    \/ Release

SpecCaller == Init /\ [][NextCaller]_vars

----------------------------------------------------------------------------
(* Calls in progress at the same time.  The body of discoverPlaces holds   *)
(* no await and runs in one step; findNearestPlace runs up to its await of *)
(* discoverPlaces, and on after it in a later step; a caller receives the  *)
(* value in a step after the call settled.  calls[c].passed is the query   *)
(* as it was handed over, calls[c].query the object after the call, and    *)
(* calls[c].during the callers whose calls were in progress at the call.   *)

InProgress == {c \in Callers : calls[c].stage \in {"awaiting", "settled"}}

\* Caller c calls discoverPlaces(q).
CallDiscoverPlaces ==
    \E c \in Callers, i \in 1..Len(RepeatQueries), startTime \in 0..MaxClock :
      \E endTime \in startTime..MaxClock :
        \E stamp \in endTime..MaxClock :
          /\ calls[c].stage = "idle"
          /\ calls' = [calls EXCEPT ![c] =
                         [stage |-> "settled", op |-> "discoverPlaces",
                          passed |-> RepeatQueries[i],
                          query |-> discoverPlaces_query(RepeatQueries[i]),
                          during |-> InProgress,
                          value |-> discoverPlaces(RepeatQueries[i], mockPlaces,
                                                   defaultRadius, maxRadius, maxResults,
                                                   startTime, endTime, stamp)]]
          /\ mockPlaces' = discoverPlaces_stored(RepeatQueries[i], mockPlaces, maxRadius,
                                                 maxResults)
          /\ UNCHANGED <<history, defaultRadius, maxRadius, maxResults, pc, query, result,
                         request, reply, accesses>>

\* Caller c calls findNearestPlace: up to the await of discoverPlaces.
CallFindNearestPlace ==
    \E c \in Callers, args \in BetweenNearestArgs, startTime \in 0..MaxClock :
      \E endTime \in startTime..MaxClock :
        \E stamp \in endTime..MaxClock :
          /\ calls[c].stage = "idle"
          /\ calls' = [calls EXCEPT ![c] =
                         [stage |-> "awaiting", op |-> "findNearestPlace",
                          passed |-> nearestQuery(args, maxRadius),
                          query |-> discoverPlaces_query(nearestQuery(args, maxRadius)),
                          during |-> InProgress,
                          value |-> discoverPlaces(nearestQuery(args, maxRadius), mockPlaces,
                                                   defaultRadius, maxRadius, maxResults,
                                                   startTime, endTime, stamp)]]
          /\ mockPlaces' = discoverPlaces_stored(nearestQuery(args, maxRadius), mockPlaces,
                                                 maxRadius, maxResults)
          /\ UNCHANGED <<history, defaultRadius, maxRadius, maxResults, pc, query, result,
                         request, reply, accesses>>

\* findNearestPlace after its await: the first result or null, or the error.
ResumeFindNearestPlace ==
    \E c \in Callers :
      /\ calls[c].stage = "awaiting"
      /\ calls' = [calls EXCEPT ![c].stage = "settled",
                                ![c].value = firstResultOf(calls[c].value)]
      /\ UNCHANGED <<history, defaultRadius, maxRadius, maxResults, mockPlaces, pc, query,
                     result, request, reply, accesses>>

\* The caller's await of the call resumes with the value.
Receive ==
    \E c \in Callers :
      /\ calls[c].stage = "settled"
      /\ calls' = [calls EXCEPT ![c].stage = "received"]
      /\ UNCHANGED <<history, defaultRadius, maxRadius, maxResults, mockPlaces, pc, query,
                     result, request, reply, accesses>>

NextConcurrent ==
    \/ CallDiscoverPlaces
    \/ CallFindNearestPlace
    \/ ResumeFindNearestPlace
    \/ Receive

SpecConcurrent == Init /\ [][NextConcurrent]_vars

----------------------------------------------------------------------------
(* The claims.                                                             *)

Responded == pc = "settled" /\ result.kind = "response"

Rejected == pc = "settled" /\ result.kind = "error"

Results == result.response.results

\* The radius and the limit the specification calls effective: the value the
\* query supplies, the default when it supplies none.
SuppliedRadius == IF Has(query, "radius") THEN query.radius ELSE defaultRadius

SuppliedLimit == Min(IF Has(query, "limit") THEN query.limit ELSE 10, maxResults)

QueryCenter == [lat |-> query.latitude, lng |-> query.longitude]

\* C1: every returned place has distance_km <= the effective radius, the
\* query's radius when it supplies one and defaultRadius otherwise.
C1_WithinSuppliedRadius ==
    Responded => \A i \in 1..Len(Results) : Results[i].distance_km <= SuppliedRadius

\* C2: the results are ordered non-decreasing by distance_km.
C2_SortedByDistance ==
    Responded =>
        \A i, j \in 1..Len(Results) :
            i < j => Results[i].distance_km <= Results[j].distance_km

\* Position of a place in the repository's list.
RepoIndex(place) == CHOOSE k \in 1..Len(mockPlaces) : mockPlaces[k].id = place.id

\* C2 witness: five or more results, returned in another order than the
\* repository holds them in.
C2_Witness ==
    /\ Responded
    /\ Len(Results) >= 5
    /\ \E i, j \in 1..Len(Results) :
          i < j /\ RepoIndex(Results[i]) > RepoIndex(Results[j])

\* C3: the number of results is at most min(L, maxResults), L the supplied
\* limit, or 10 when none is supplied.
C3_AtMostSuppliedLimit == Responded => Len(Results) <= SuppliedLimit

\* C4: every returned distance_km is calculateDistance(query center, the
\* place's location), and it is that value the radius filter and the sort
\* used, not the repository's placeholder.
C4_DistanceOfThisQuery ==
    Responded =>
        /\ \A i \in 1..Len(Results) :
              /\ Results[i].distance_km = calculateDistance(QueryCenter, Results[i].location)
              /\ calculateDistance(QueryCenter, Results[i].location)
                    <= result.response.query.radius
        /\ \A i, j \in 1..Len(Results) :
              i < j => calculateDistance(QueryCenter, Results[i].location)
                          <= calculateDistance(QueryCenter, Results[j].location)

\* C4 witness: results whose distance differs from the placeholder 0.
C4_Witness ==
    /\ Responded
    /\ Len(Results) >= 2
    /\ \A i \in 1..Len(Results) : Results[i].distance_km > 0

\* The repository places the query's category filter lets through, and of
\* those the ones within the effective radius.
MatchesCategory(place) ==
    Has(query, "category") => toLowerCase(place.category) = toLowerCase(query.category)

Candidates ==
    {k \in 1..Len(mockPlaces) :
        /\ MatchesCategory(mockPlaces[k])
        /\ calculateDistance(QueryCenter, mockPlaces[k].location) <= SuppliedRadius}

Returned(k) == \E i \in 1..Len(Results) : Results[i].id = mockPlaces[k].id

\* C5: with fewer results than the limit, every candidate (a place at exactly
\* the radius included) is returned; with the limit reached, no omitted
\* candidate is strictly closer than a returned place.
C5_NearestCandidates ==
    Responded =>
        /\ Len(Results) < SuppliedLimit => \A k \in Candidates : Returned(k)
        /\ Len(Results) >= SuppliedLimit =>
              \A k \in Candidates :
                  ~Returned(k) =>
                      \A i \in 1..Len(Results) :
                          calculateDistance(QueryCenter, mockPlaces[k].location)
                              >= Results[i].distance_km

\* C5 witness: fewer results than the limit, one of them exactly at the radius.
C5_Witness ==
    /\ Responded
    /\ Len(Results) < SuppliedLimit
    /\ Len(Results) >= 2
    /\ \E i \in 1..Len(Results) : Results[i].distance_km = SuppliedRadius

\* C6: total is the length of results.
C6_TotalIsLength == Responded => result.response.total = Len(Results)

\* C6 witness: the limit cut places that lie within the radius.
C6_Witness ==
    /\ Responded
    /\ Len(Results) >= 1
    /\ Cardinality(Candidates) > Len(Results)

\* C7: with a category supplied, every returned place has that category,
\* letter case ignored.
C7_OnlySuppliedCategory ==
    (Responded /\ Has(query, "category")) =>
        \A i \in 1..Len(Results) :
            toLowerCase(Results[i].category) = toLowerCase(query.category)

BadLatitude == isNaN(query.latitude) \/ query.latitude < -900000 \/ query.latitude > 900000

BadLongitude ==
    isNaN(query.longitude) \/ query.longitude < -1800000 \/ query.longitude > 1800000

\* C8: a latitude outside [-90,90] or a longitude outside [-180,180], or a
\* NaN, makes the call fail with an error naming an offending field, and no
\* response.
C8_BadCoordinatesRejected ==
    (pc = "settled" /\ (BadLatitude \/ BadLongitude)) =>
        /\ result.kind = "error"
        /\ ~Has(result, "response")
        /\ result.error.message.word = "Invalid"
        /\ \/ BadLatitude /\ result.error.message.field = "latitude"
           \/ BadLongitude /\ result.error.message.field = "longitude"

\* C8 witness: a latitude just above 90 with a longitude in range, rejected.
C8_Witness ==
    /\ Rejected
    /\ query.latitude = 900001
    /\ ~BadLongitude
    /\ result.error.message.field = "latitude"

\* C9: a present radius outside [0.1, maxRadius], 0 and negative radii
\* included, makes the call fail.
C9_BadRadiusRejected ==
    (pc = "settled" /\ Has(query, "radius")
        /\ (query.radius < 10 \/ query.radius > maxRadius)) => result.kind = "error"

\* C10: a present limit outside [1, maxResults], 0 included, makes the call
\* fail.
C10_BadLimitRejected ==
    (pc = "settled" /\ Has(query, "limit")
        /\ (query.limit < 1 \/ query.limit > maxResults)) => result.kind = "error"

\* C11: a category that is present and not one of the known categories makes
\* the call fail, in discoverPlaces and in findNearestPlace.
C11_UnknownCategoryRejected ==
    (pc = "settled" /\ Has(query, "category") /\ query.category \notin PlaceCategory)
        => result.kind = "error"

\* A request of GET /discover fails the validation contract: a coordinate
\* missing, no number or out of range; a radius, limit or category present
\* and outside what the service is configured to take.
FailsValidation ==
    LET q == request.query
    IN \/ ~Has(q, "latitude") \/ ~isValidLatitude(q.latitude)
       \/ ~Has(q, "longitude") \/ ~isValidLongitude(q.longitude)
       \/ Has(q, "radius") /\ (isNaN(q.radius) \/ q.radius < 10 \/ q.radius > maxRadius)
       \/ Has(q, "limit") /\ (isNaN(q.limit) \/ q.limit < 1 \/ q.limit > maxResults)
       \/ Has(q, "category") /\ toLowerCase(q.category) \notin PlaceCategory

C13_NearestInvalidIs400 ==
    (pc = "responded" /\ request.path = "/discover/nearest" /\ result.kind = "error") =>
        /\ reply.status = HttpStatus_BAD_REQUEST
        /\ reply.body.message = result.error.message

\* C14: a call that fails validation makes no access to the repository.
C14_NoAccessWhenRejected ==
    (pc \in {"settled", "responded"} /\ result.kind = "error") => accesses = <<>>

\* C14 witness: a rejected query with a category, the property the fetch
\* would have gone by, and no access to the repository.
C14_Witness ==
    /\ Rejected
    /\ TruthyString(query, "category")
    /\ accesses = <<>>

\* C15: whatever calls were made, the repository holds the places it was
\* constructed with, in the same order, each distance_km still 0.
C15_RepositoryUnchanged ==
    /\ mockPlaces = MockPlaces
    /\ \A k \in 1..Len(mockPlaces) : mockPlaces[k].distance_km = 0

\* C15 witness: a call returned places with distances other than 0, sorted
\* into another order than the repository's.
C15_Witness ==
    /\ C2_Witness
    /\ \E i \in 1..Len(Results) : Results[i].distance_km > 0

\* C16: a call with a query that was asked before settles to the results
\* and the total of the first call with it, or to the same error, whatever
\* calls were made in between.
C16_RepeatIsIdentical ==
    (pc = "settled" /\ history.current # 0)
        => outcomeOf(result) = history.first[history.current].outcome

\* C16 witness: a query is asked again after other calls, and its results
\* hold two places at the same distance.
C16_Witness ==
    /\ pc = "settled" /\ history.current # 0
    /\ history.first[history.current].between
    /\ result.kind = "response"
    /\ \E k \in 1..(Len(Results) - 1) : Results[k].distance_km = Results[k + 1].distance_km

\* The value of a call equals that of the same call made alone, which
\* settled to alone: results and total of a response, the place or null of
\* findNearestPlace, the error of either.
AsAlone(call, alone) ==
    IF call.op = "discoverPlaces" THEN outcomeOf(call.value) = outcomeOf(alone)
    ELSE call.value = firstResultOf(alone)

\* C17: of calls in progress at the same time, in any interleaving of their
\* steps, each settles to what the same call gives on its own, and the
\* query object of each stays as it was handed over.
C17_ConcurrentAsAlone ==
    \A c \in Callers :
        /\ calls[c].stage # "idle" => calls[c].query = calls[c].passed
        /\ calls[c].stage \in {"settled", "received"} =>
               AsAlone(calls[c], discoverPlaces(calls[c].passed, MockPlaces, defaultRadius,
                                                maxRadius, maxResults, 0, 0, 0))

\* C17 witness: discoverPlaces was called while a findNearestPlace call was
\* awaiting, both were received, one with a place and one with results that
\* hold two places at the same distance.
C17_Witness ==
    \E a \in Callers, b \in Callers :
        /\ calls[a].stage = "received" /\ calls[b].stage = "received"
        /\ calls[a].op = "findNearestPlace" /\ calls[a].value.kind = "place"
        /\ calls[b].op = "discoverPlaces" /\ a \in calls[b].during
        /\ calls[b].value.kind = "response"
        /\ \E k \in 1..(Len(calls[b].value.response.results) - 1) :
               calls[b].value.response.results[k].distance_km
                   = calls[b].value.response.results[k + 1].distance_km

\* findNearestPlace settled to a place or to null.
NearestSettled == pc = "settled" /\ result.kind \in {"place", "null"}

\* The repository places of the category handed to findNearestPlace (every
\* place when none was) that lie within maxRadius of the center.
NearestCandidates ==
    {k \in 1..Len(mockPlaces) :
        /\ MatchesCategory(mockPlaces[k])
        /\ calculateDistance(QueryCenter, mockPlaces[k].location) <= maxRadius}

\* C18: findNearestPlace settles to the candidate at the smallest distance,
\* of several at that distance to the one earliest in the repository, with
\* its distance_km set.
C18_NearestIsMinimalMatching ==
    (NearestSettled /\ (result.kind = "place" \/ NearestCandidates # {})) =>
        /\ result.kind = "place"
        /\ \E k \in NearestCandidates :
             /\ result.place.id = mockPlaces[k].id
             /\ result.place.distance_km
                    = calculateDistance(QueryCenter, mockPlaces[k].location)
             /\ \A j \in NearestCandidates :
                    \/ calculateDistance(QueryCenter, mockPlaces[j].location)
                           > result.place.distance_km
                    \/ /\ calculateDistance(QueryCenter, mockPlaces[j].location)
                              = result.place.distance_km
                       /\ j >= k

\* A findNearestPlace call settled, or GET /discover/nearest was answered:
\* query is the query findNearestPlace built.
NearestCalled ==
    \/ /\ pc = "settled" /\ result.kind \in {"place", "null", "error"}
       /\ Has(query, "radius") /\ Has(query, "limit")
       /\ query.radius = maxRadius /\ query.limit = 1
    \/ pc = "responded" /\ request.path = "/discover/nearest"

\* C19: with valid coordinates and no candidate, findNearestPlace settles to
\* null and not to an error, and GET /discover/nearest answers 200 with
\* place null.
C19_NoCandidateIsNull ==
    (NearestCalled /\ ~BadLatitude /\ ~BadLongitude /\ NearestCandidates = {}) =>
        /\ result.kind = "null"
        /\ pc = "responded" =>
               /\ reply.status = HttpStatus_OK
               /\ reply.body.place.kind = "null"

\* C20: returned places at the same distance stand in the order of the
\* repository's list, and a candidate the limit cut off stands in that list
\* after every returned place of its distance.
C20_TiesInRepositoryOrder ==
    Responded =>
        /\ \A i, j \in 1..Len(Results) :
               (i < j /\ Results[i].distance_km = Results[j].distance_km)
                   => RepoIndex(Results[i]) < RepoIndex(Results[j])
        /\ \A k \in Candidates :
               ~Returned(k) =>
                   \A i \in 1..Len(Results) :
                       Results[i].distance_km
                               = calculateDistance(QueryCenter, mockPlaces[k].location)
                           => RepoIndex(Results[i]) < k

\* C20 witness: the limit cut between two places at the same distance, the
\* last result and a candidate that is not returned.
C20_Witness ==
    /\ Responded
    /\ Len(Results) >= 2
    /\ \E k \in Candidates :
           /\ ~Returned(k)
           /\ Results[Len(Results)].distance_km
                  = calculateDistance(QueryCenter, mockPlaces[k].location)

\* The query the response echoes.
Echo == result.response.query

\* C21: the response echoes latitude, longitude and category as supplied,
\* the supplied radius or defaultRadius when none is supplied, and the
\* smaller of maxResults and the supplied limit, 10 when none is supplied;
\* the results lie within the echoed radius and are no more than the echoed
\* limit.
C21_EchoesEffective ==
    Responded =>
        /\ Echo.latitude = query.latitude
        /\ Echo.longitude = query.longitude
        /\ Has(Echo, "category") = Has(query, "category")
        /\ Has(query, "category") => Echo.category = query.category
        /\ Echo.radius = SuppliedRadius
        /\ Echo.limit = SuppliedLimit
        /\ \A i \in 1..Len(Results) : Results[i].distance_km <= Echo.radius
        /\ Len(Results) <= Echo.limit

\* The repository index of the first place of a category.
FirstPlaceOf(category) ==
    CHOOSE k \in 1..Len(mockPlaces) :
        /\ mockPlaces[k].category = category
        /\ \A j \in 1..(k - 1) : mockPlaces[j].category # category

\* C22: the list of categories holds the category of every repository place
\* and only such categories, each once, ordered by the first place that has
\* it, none of event, entertainment and service; GET /discover/categories
\* answers with that list and its length as total.
C22_CategoriesOfRepository ==
    result.kind = "categories" =>
        /\ \A k \in 1..Len(mockPlaces) :
               \E i \in 1..Len(result.categories) :
                   result.categories[i] = mockPlaces[k].category
        /\ \A i \in 1..Len(result.categories) :
               /\ \E k \in 1..Len(mockPlaces) :
                      mockPlaces[k].category = result.categories[i]
               /\ result.categories[i]
                      \notin {PlaceCategory_EVENT, PlaceCategory_ENTERTAINMENT,
                              PlaceCategory_SERVICE}
        /\ \A i, j \in 1..Len(result.categories) :
               i < j => /\ result.categories[i] # result.categories[j]
                        /\ FirstPlaceOf(result.categories[i])
                               < FirstPlaceOf(result.categories[j])
        /\ pc = "responded" =>
               /\ reply.status = HttpStatus_OK
               /\ reply.body.categories = result.categories
               /\ reply.body.total = Len(result.categories)

\* C22 witness: GET /discover/categories answered with several categories.
C22_Witness ==
    /\ pc = "responded"
    /\ request.path = "/discover/categories"
    /\ Len(reply.body.categories) > 1
    /\ reply.body.total < Cardinality(PlaceCategory)

\* C23: the statistics count the repository's places, openPlaces and
\* closedPlaces add up to totalPlaces, categoriesCount is the number of
\* categories the places have and the length of the category list, and
\* config holds the defaultRadius, maxRadius and maxResults the service
\* works with; GET /discover/stats answers with that object, and the
\* repository is as before.
C23_StatisticsOfRepository ==
    result.kind = "statistics" =>
        /\ result.statistics.dataStats.totalPlaces = Len(mockPlaces)
        /\ result.statistics.dataStats.openPlaces
               = Cardinality({k \in 1..Len(mockPlaces) : mockPlaces[k].open_now})
        /\ result.statistics.dataStats.openPlaces + result.statistics.dataStats.closedPlaces
               = result.statistics.dataStats.totalPlaces
        /\ result.statistics.dataStats.categoriesCount
               = Cardinality({mockPlaces[k].category : k \in 1..Len(mockPlaces)})
        /\ result.statistics.dataStats.categoriesCount
               = Len(serviceGetAvailableCategories(mockPlaces))
        /\ result.statistics.config
               = [defaultRadius |-> defaultRadius, maxRadius |-> maxRadius,
                  maxResults |-> maxResults]
        /\ mockPlaces = MockPlaces
        /\ pc = "responded" =>
               reply.status = HttpStatus_OK /\ reply.body = result.statistics

\* C23 witness: statistics of a repository with open and closed places.
C23_Witness ==
    /\ result.kind = "statistics"
    /\ result.statistics.dataStats.openPlaces > 0
    /\ result.statistics.dataStats.closedPlaces > 0
    /\ pc = "responded"

\* C24: calculateDistance of a valid point and itself is 0, and a place at
\* the center of an accepted query, of the query's category when it has
\* one, is returned with distance_km 0.
C24_ZeroAtSamePoint ==
    /\ (result.kind = "distance" /\ query.point1 = query.point2) => result.distance = 0
    /\ Responded =>
           \A k \in 1..Len(mockPlaces) :
               (/\ mockPlaces[k].location.lat = query.latitude
                /\ mockPlaces[k].location.lng = query.longitude
                /\ MatchesCategory(mockPlaces[k]))
                   => \E i \in 1..Len(Results) :
                          /\ Results[i].id = mockPlaces[k].id
                          /\ Results[i].distance_km = 0

\* C24 witness: the distance of a point off the equator and the prime
\* meridian from itself.
C24_Witness ==
    /\ result.kind = "distance"
    /\ query.point1 = query.point2
    /\ query.point1.lat # 0 /\ query.point1.lng # 0

\* C25: calculateDistance(p, q), rounded as it is returned, is
\* calculateDistance(q, p).
C25_DistanceSymmetric ==
    result.kind = "distance"
        => result.distance = calculateDistance(query.point2, query.point1)

\* C25 witness: two points of different latitude and longitude, at a
\* distance other than 0.
C25_Witness ==
    /\ result.kind = "distance"
    /\ query.point1.lat # query.point2.lat
    /\ query.point1.lng # query.point2.lng
    /\ result.distance > 0

ValidButRadius ==
    LET q == request.query
    IN /\ DOMAIN q \subseteq {"latitude", "longitude", "radius", "limit", "category"}
       /\ Has(q, "latitude") /\ isValidLatitude(q.latitude)
       /\ Has(q, "longitude") /\ isValidLongitude(q.longitude)
       /\ plainToInstance(q).limit >= 1 /\ plainToInstance(q).limit <= maxResults
       /\ Has(q, "category") => toLowerCase(q.category) \in PlaceCategory

\* C27: with the other parameters valid, GET /discover answers a supplied
\* radius with 200 when it lies in [0.1, maxRadius] and with 400 when it does
\* not, for every configured maxRadius.
C27_RadiusWithinMaxRadius ==
    (/\ pc = "responded" /\ request.path = "/discover"
     /\ Has(request.query, "radius") /\ ValidButRadius) =>
        IF request.query.radius >= 10 /\ request.query.radius <= maxRadius
        THEN reply.status = HttpStatus_OK
        ELSE reply.status = HttpStatus_BAD_REQUEST

\* C28: whatever a caller assigned to a place or an array it was handed, a
\* later discoverPlaces settles to the results and total it gives on the
\* repository as constructed, and a later getPlaceById returns the place as
\* constructed.
C28_ReturnedObjectsIndependent ==
    /\ Responded =>
           outcomeOf(result)
               = outcomeOf(discoverPlaces(query, MockPlaces, defaultRadius, maxRadius,
                                          maxResults, 0, 0, 0))
    /\ result.kind = "found" => result.found = getPlaceById(MockPlaces, query.id)

\* A supplied radius outside [0.1, maxRadius], a supplied limit outside
\* [1, maxResults].
BadRadius == Has(query, "radius") /\ (query.radius < 10 \/ query.radius > maxRadius)

BadLimit == Has(query, "limit") /\ (query.limit < 1 \/ query.limit > maxResults)

\* The first invalid field of the query in the order latitude, longitude,
\* radius, limit.
FirstInvalidField ==
    IF BadLatitude THEN "latitude"
    ELSE IF BadLongitude THEN "longitude"
    ELSE IF BadRadius THEN "radius"
    ELSE "limit"

\* C29: the one error of a rejected call is that of the first invalid field
\* in the order latitude, longitude, radius, limit, and its message holds
\* the word Invalid, the name of that field and the value the query has
\* for it.
C29_FirstInvalidFieldReported ==
    Rejected =>
        /\ result.error.message.word = "Invalid"
        /\ result.error.message.field = FirstInvalidField
        /\ result.error.message.value = query[FirstInvalidField]

\* C30: the results of a response have pairwise distinct ids, each id is
\* that of a repository place, and a result equals that place in every
\* field other than distance_km.
C30_ResultsAreRepositoryPlaces ==
    Responded =>
        /\ \A i, j \in 1..Len(Results) : i # j => Results[i].id # Results[j].id
        /\ \A i \in 1..Len(Results) :
            /\ \E k \in 1..Len(mockPlaces) : mockPlaces[k].id = Results[i].id
            /\ \A k \in 1..Len(mockPlaces) :
                mockPlaces[k].id = Results[i].id =>
                    [Results[i] EXCEPT !.distance_km = mockPlaces[k].distance_km] = mockPlaces[k]

\* C30 witness: a response with several results at non-zero distances.
C30_Witness ==
    /\ Responded
    /\ Len(Results) >= 3
    /\ \E i \in 1..Len(Results) : Results[i].distance_km > 0

====
